---- MODULE Spec2Model ----
(***************************************************************************)
(* Responsive sizing utility (src/utils/screenSizes.js): percentage to dp  *)
(* conversions and the orientation-change listener, over the host          *)
(* platform's Dimensions and PixelRatio.                                   *)
(*                                                                         *)
(* JavaScript numbers are modelled as exact rationals plus NaN and the two *)
(* infinities; the sign of zero and binary rounding error are not          *)
(* modelled.  Strings are sequences of one-character strings.              *)
(***************************************************************************)
EXTENDS Integers, Sequences, FiniteSets, TLC

VARIABLES
  window,      \* the host's current window, in physical pixels
  pixelRatio,  \* PixelRatio.get(): physical pixels per dp (a Number)
  subs,        \* handlers registered for Dimensions 'change', in order
  nListen,     \* how many times listenOrientationChange was called
  invoked,     \* update-channel invocations of the latest 'change' event
  error,       \* what the latest operation threw ("none" if nothing)
  lastOp,      \* the latest operation
  percent,     \* the argument of the conversion calls
  ret          \* what the latest conversion call returned

vars == <<window, pixelRatio, subs, nListen, invoked, error, lastOp, percent, ret>>

(***************************************************************************)
(* Bounds                                                                  *)
(***************************************************************************)
MaxLen == 3     \* longest percentage string
MaxSubs == 3    \* most listenOrientationChange calls

\* characters percentage strings are drawn from ("%" is also the
\* non-numeric character)
Alphabet == {"0", "5", ".", "%", "-"}

\* window sides, in physical pixels
PxSizes == {400, 600, 601}

(***************************************************************************)
(* Numbers                                                                 *)
(***************************************************************************)
Abs(x) == IF x < 0 THEN -x ELSE x

RECURSIVE GCD(_, _)
GCD(a, b) == IF b = 0 THEN a ELSE GCD(b, a % b)

\* the finite number n/d (d # 0), in lowest terms with a positive denominator
Fin(n, d) ==
  LET s == IF d < 0 THEN -1 ELSE 1
      g == GCD(Abs(n), Abs(d))
  IN  [kind |-> "fin", n |-> (s * n) \div g, d |-> (s * d) \div g]

NaN == [kind |-> "nan", n |-> 0, d |-> 1]
PosInf == [kind |-> "inf", n |-> 0, d |-> 1]
NegInf == [kind |-> "ninf", n |-> 0, d |-> 1]
None == [kind |-> "none", n |-> 0, d |-> 1]

IsFinite(a) == a.kind = "fin"

Sign(a) ==
  CASE a.kind = "inf" -> 1
    [] a.kind = "ninf" -> -1
    [] OTHER -> IF a.n > 0 THEN 1 ELSE IF a.n < 0 THEN -1 ELSE 0

Signed(s) == IF s > 0 THEN PosInf ELSE IF s < 0 THEN NegInf ELSE NaN

\* a * b
Mul(a, b) ==
  IF a.kind = "nan" \/ b.kind = "nan" THEN NaN
  ELSE IF IsFinite(a) /\ IsFinite(b) THEN Fin(a.n * b.n, a.d * b.d)
  ELSE Signed(Sign(a) * Sign(b))

\* a / b
Div(a, b) ==
  IF a.kind = "nan" \/ b.kind = "nan" THEN NaN
  ELSE IF IsFinite(a) /\ IsFinite(b)
       THEN IF b.n = 0 THEN Signed(Sign(a)) ELSE Fin(a.n * b.d, a.d * b.n)
  ELSE IF IsFinite(b) THEN Signed(Sign(a) * (IF Sign(b) < 0 THEN -1 ELSE 1))
  ELSE IF IsFinite(a) THEN Fin(0, 1)
  ELSE NaN

\* a + b
Add(a, b) ==
  IF a.kind = "nan" \/ b.kind = "nan" THEN NaN
  ELSE IF IsFinite(a) /\ IsFinite(b) THEN Fin(a.n * b.d + b.n * a.d, a.d * b.d)
  ELSE IF IsFinite(a) THEN b
  ELSE IF IsFinite(b) \/ a = b THEN a
  ELSE NaN

\* a < b (false when either is NaN)
Less(a, b) ==
  /\ a.kind # "nan"
  /\ b.kind # "nan"
  /\ CASE a.kind = "ninf" -> b.kind # "ninf"
       [] a.kind = "inf" -> FALSE
       [] OTHER -> CASE b.kind = "inf" -> TRUE
                     [] b.kind = "ninf" -> FALSE
                     [] OTHER -> a.n * b.d < b.n * a.d

GreaterInverted(a, b) == Less(a, b)

\* a > b
Greater(a, b) == Less(b, a)

\* Math.round: the nearest integer, halves towards +Infinity
MathRound(x) ==
  IF IsFinite(x) THEN Fin((2 * x.n + x.d) \div (2 * x.d), 1) ELSE x

(***************************************************************************)
(* parseFloat                                                              *)
(***************************************************************************)
DigitChars == <<"0", "1", "2", "3", "4", "5", "6", "7", "8", "9">>

IsDigit(c) == \E i \in 1..Len(DigitChars) : DigitChars[i] = c

DigitValue(c) == (CHOOSE i \in 1..Len(DigitChars) : DigitChars[i] = c) - 1

\* how many digits str holds from position i on
RECURSIVE DigitRun(_, _)
DigitRun(str, i) ==
  IF i <= Len(str) /\ IsDigit(str[i]) THEN 1 + DigitRun(str, i + 1) ELSE 0

\* the value of the k digits of str that end at position i
RECURSIVE DigitsValue(_, _, _)
DigitsValue(str, i, k) ==
  IF k = 0 THEN 0
  ELSE 10 * DigitsValue(str, i - 1, k - 1) + DigitValue(str[i])

RECURSIVE Pow10(_)
Pow10(k) == IF k = 0 THEN 1 ELSE 10 * Pow10(k - 1)

\* parseFloat(str): the longest prefix that is a decimal literal
\* (sign, digits, ".", digits), NaN when there is none
ParseFloat(str) ==
  LET neg == Len(str) > 0 /\ str[1] = "-"
      from == IF neg THEN 2 ELSE 1
      ki == DigitRun(str, from)
      dot == from + ki <= Len(str) /\ str[from + ki] = "."
      kf == IF dot THEN DigitRun(str, from + ki + 1) ELSE 0
      whole == DigitsValue(str, from + ki - 1, ki)
      frac == DigitsValue(str, from + ki + kf, kf)
      magnitude == whole * Pow10(kf) + frac
  IN  IF ki + kf = 0 THEN NaN
      ELSE Fin(IF neg THEN -magnitude ELSE magnitude, Pow10(kf))

(***************************************************************************)
(* Arguments of the conversions: a number or a string                      *)
(***************************************************************************)
ArgNumber(x) == [type |-> "number", num |-> x, str |-> <<>>]
ArgString(s) == [type |-> "string", num |-> NaN, str |-> s]

Strings == UNION {[1..k -> Alphabet] : k \in 0..MaxLen}

NumberInputs ==
  {Fin(-50, 1), Fin(0, 1), Fin(25, 2), Fin(50, 1), Fin(100, 1), Fin(150, 1),
   NaN, PosInf}

Inputs == {ArgString(s) : s \in Strings} \cup {ArgNumber(x) : x \in NumberInputs}

(***************************************************************************)
(* Host platform                                                           *)
(***************************************************************************)
PixelRatios == {Fin(1, 1), Fin(3, 2), Fin(2, 1)}

Windows == [width : PxSizes, height : PxSizes]

\* the window when the module is loaded
LoadWindow == [width |-> 400, height |-> 600]

\* a window of physical pixels in dp
InDp(w) ==
  [width |-> Div(Fin(w.width, 1), pixelRatio),
   height |-> Div(Fin(w.height, 1), pixelRatio)]

\* Dimensions.get('window')
DimensionsGetCached == InDp(LoadWindow)

DimensionsGet == InDp(window)

\* PixelRatio.roundToNearestPixel(layoutSize)
RoundToNearestPixelNoDivide(layoutSize) == MathRound(Mul(layoutSize, pixelRatio))

RoundToNearestPixel(layoutSize) ==
  Div(MathRound(Mul(layoutSize, pixelRatio)), pixelRatio)

(***************************************************************************)
(* The conversions                                                         *)
(***************************************************************************)
\* Number(x): the whole string must be a decimal literal
ToNumberWholeString(x) ==
  LET str == x.str
      from == IF Len(str) > 0 /\ str[1] = "-" THEN 2 ELSE 1
      ki == DigitRun(str, from)
      dot == from + ki <= Len(str) /\ str[from + ki] = "."
      kf == IF dot THEN DigitRun(str, from + ki + 1) ELSE 0
      used == (from - 1) + ki + (IF dot THEN 1 + kf ELSE 0)
  IN  IF x.type = "number" THEN x.num
      ELSE IF used = Len(str) THEN ParseFloat(str) ELSE NaN

\* typeof x === 'number' ? x : parseFloat(x)
ToNumber(x) == IF x.type = "number" THEN x.num ELSE ParseFloat(x.str)

widthPercentageToDPOfHeight(widthPercent) ==
  LET screenWidth == DimensionsGet.height
      elemWidth == ToNumber(widthPercent)
  IN  RoundToNearestPixel(Div(Mul(screenWidth, elemWidth), Fin(100, 1)))

widthPercentageToDP(widthPercent) ==
  LET screenWidth == DimensionsGet.width
      elemWidth == ToNumber(widthPercent)
  IN  RoundToNearestPixel(Div(Mul(screenWidth, elemWidth), Fin(100, 1)))

heightPercentageToDP(heightPercent) ==
  LET screenHeight == DimensionsGet.height
      elemHeight == ToNumber(heightPercent)
  IN  RoundToNearestPixel(Div(Mul(screenHeight, elemHeight), Fin(100, 1)))

Str100 == ArgString(<<"1", "0", "0">>)

largp(p) ==
  IF Greater(widthPercentageToDP(Str100), heightPercentageToDP(Str100))
  THEN widthPercentageToDP(p)
  ELSE heightPercentageToDP(p)

smlp(p) ==
  IF Greater(widthPercentageToDP(Str100), heightPercentageToDP(Str100))
  THEN heightPercentageToDP(p)
  ELSE widthPercentageToDP(p)

(***************************************************************************)
(* The conversions, called                                                 *)
(***************************************************************************)
CallWp ==
  /\ lastOp' = "wp"
  /\ ret' = widthPercentageToDP(percent)
  /\ error' = "none"
  /\ UNCHANGED <<window, pixelRatio, subs, nListen, invoked, percent>>

CallHp ==
  /\ lastOp' = "hp"
  /\ ret' = heightPercentageToDP(percent)
  /\ error' = "none"
  /\ UNCHANGED <<window, pixelRatio, subs, nListen, invoked, percent>>

CallLargp ==
  /\ lastOp' = "largp"
  /\ ret' = largp(percent)
  /\ error' = "none"
  /\ UNCHANGED <<window, pixelRatio, subs, nListen, invoked, percent>>

CallSmlp ==
  /\ lastOp' = "smlp"
  /\ ret' = smlp(percent)
  /\ error' = "none"
  /\ UNCHANGED <<window, pixelRatio, subs, nListen, invoked, percent>>

(***************************************************************************)
(* The orientation listener                                                *)
(***************************************************************************)
\* the 'change' event's argument for a new window
NewDimensions(w) == [window |-> InDp(w)]

OrientationTiesPortrait(screenWidth, screenHeight) ==
  IF Less(screenHeight, screenWidth) THEN "Landscape" ELSE "Portrait"

\* screenWidth < screenHeight ? 'Portrait' : 'Landscape'
Orientation(screenWidth, screenHeight) ==
  IF Less(screenWidth, screenHeight) THEN "Portrait" ELSE "Landscape"

Invocation(h, channel, orientation) ==
  [handler |-> h.id, channel |-> channel, orientation |-> orientation]

ChangeHandlerSwapped(h, newDimensions) ==
  LET orientation ==
        Orientation(newDimensions.window.width, newDimensions.window.height)
  IN  IF h.classComponentThis /\ ~h.setStateHook
      THEN [calls |-> <<Invocation(h, "setStateHook", orientation)>>,
            threw |-> FALSE]
      ELSE IF h.setStateHook /\ ~h.classComponentThis
      THEN [calls |-> <<Invocation(h, "classComponentThis.setState", orientation)>>,
            threw |-> FALSE]
      ELSE [calls |-> <<>>, threw |-> TRUE]

\* the handler listenOrientationChange registers, run on one event: the
\* update-channel invocations it makes and whether it throws the Error
ChangeHandler(h, newDimensions) ==
  LET screenWidth == newDimensions.window.width
      screenHeight == newDimensions.window.height
      orientation == Orientation(screenWidth, screenHeight)
  IN  IF h.classComponentThis /\ ~h.setStateHook
      THEN [calls |-> <<Invocation(h, "classComponentThis.setState", orientation)>>,
            threw |-> FALSE]
      ELSE IF h.setStateHook /\ ~h.classComponentThis
      THEN [calls |-> <<Invocation(h, "setStateHook", orientation)>>,
            threw |-> FALSE]
      ELSE [calls |-> <<>>, threw |-> TRUE]

\* the host's dispatch of one 'change' event to the handlers from the i-th
\* on, in registration order; a handler that throws ends the dispatch
RECURSIVE Emit(_, _, _)
Emit(list, i, newDimensions) ==
  IF i > Len(list) THEN [calls |-> <<>>, threw |-> FALSE]
  ELSE LET r == ChangeHandler(list[i], newDimensions)
           rest == Emit(list, i + 1, newDimensions)
       IN  IF r.threw THEN r
           ELSE [calls |-> r.calls \o rest.calls, threw |-> rest.threw]

AddEventListenerOnce(list, handler) ==
  IF Len(list) > 0 THEN list ELSE Append(list, handler)

\* Dimensions.addEventListener('change', handler)
AddEventListener(list, handler) == Append(list, handler)

RemoveEventListenerLatest(list, handlerId) ==
  IF Len(list) > 0 THEN SubSeq(list, 1, Len(list) - 1) ELSE list

\* Dimensions.removeEventListener('change', handler): drops the registered
\* handler that is the very function given
RemoveEventListener(list, handlerId) ==
  SelectSeq(list, LAMBDA h : h.id # handlerId)

listenOrientationChange(classComponentThis, setStateHook) ==
  /\ nListen < MaxSubs
  /\ subs' = AddEventListener(subs,
                [id |-> nListen + 1,
                 classComponentThis |-> classComponentThis,
                 setStateHook |-> setStateHook])
  /\ nListen' = nListen + 1
  /\ error' = "none"
  /\ lastOp' = "listen"
  /\ ret' = None
  /\ UNCHANGED <<window, pixelRatio, invoked, percent>>

\* the handler passed for removal is a function created by this call (id 0),
\* which no registration holds; a host whose Dimensions has no
\* removeEventListener method raises a TypeError instead
removeOrientationListener ==
  /\ \/ /\ subs' = RemoveEventListener(subs, 0)
        /\ error' = "none"
     \/ /\ subs' = subs
        /\ error' = "TypeError"
  /\ lastOp' = "remove"
  /\ ret' = None
  /\ UNCHANGED <<window, pixelRatio, nListen, invoked, percent>>

\* the host reports a new window and dispatches the 'change' event
DimensionsChange(w) ==
  LET r == Emit(subs, 1, NewDimensions(w))
  IN  /\ window' = w
      /\ invoked' = r.calls
      /\ error' = IF r.threw THEN "Error" ELSE "none"
      /\ lastOp' = "change"
      /\ ret' = None
      /\ UNCHANGED <<pixelRatio, subs, nListen, percent>>

(***************************************************************************)
(* Specifications                                                          *)
(***************************************************************************)
InitHost ==
  /\ window = LoadWindow
  /\ pixelRatio \in PixelRatios
  /\ subs = <<>>
  /\ nListen = 0
  /\ invoked = <<>>
  /\ error = "none"
  /\ lastOp = "load"
  /\ ret = None

\* the listener: registrations, removals and 'change' events
Init == InitHost /\ percent = Str100

Next ==
  \/ \E c \in BOOLEAN, s \in BOOLEAN : listenOrientationChange(c, s)
  \/ removeOrientationListener
  \/ \E w \in Windows : DimensionsChange(w)

Spec == Init /\ [][Next]_vars

\* the conversions of one percentage, between window changes
InitConv == InitHost /\ percent \in Inputs

NextConv ==
  \/ CallWp
  \/ CallHp
  \/ CallLargp
  \/ CallSmlp
  \/ \E w \in Windows : DimensionsChange(w)

SpecConv == InitConv /\ [][NextConv]_vars

(***************************************************************************)
(* Properties                                                              *)
(***************************************************************************)
ExactlyOneChannel(h) == h.classComponentThis # h.setStateHook

SuppliedChannel(h) ==
  IF h.classComponentThis THEN "classComponentThis.setState" ELSE "setStateHook"

\* Portrait exactly when the window is narrower than it is high
WindowOrientation ==
  IF window.width < window.height THEN "Portrait" ELSE "Landscape"

\* C1: a listenOrientationChange call with neither or both update channels
\* fails with the configuration error during the call itself.
C1_FailsAtRegistration ==
  (lastOp = "listen" /\ ~ExactlyOneChannel(subs[Len(subs)])) => error = "Error"

\* C2: after a single listenOrientationChange call with exactly one update
\* channel, every 'change' event invokes that channel exactly once, with the
\* orientation of the event's dimensions, and never the other channel.
C2_OneInvocationPerEvent ==
  (lastOp = "change" /\ nListen = 1 /\ ExactlyOneChannel(subs[1])) =>
    invoked = <<[handler |-> 1,
                 channel |-> SuppliedChannel(subs[1]),
                 orientation |-> WindowOrientation]>>

C2_Witness ==
  /\ lastOp = "change"
  /\ nListen = 1
  /\ subs[1].setStateHook
  /\ ~subs[1].classComponentThis
  /\ Len(invoked) = 1
  /\ invoked[1].channel = "setStateHook"

C5_OrientationOfDimensions ==
  lastOp = "change" =>
    \A k \in 1..Len(invoked) :
      /\ window.width < window.height => invoked[k].orientation = "Portrait"
      /\ window.width >= window.height => invoked[k].orientation = "Landscape"

C5_Witness ==
  /\ lastOp = "change"
  /\ window.width = window.height
  /\ Len(invoked) >= 1
  /\ invoked[1].orientation = "Landscape"

\* a string that starts with a decimal literal without a sign
StartsWithNumeral(s) ==
  /\ Len(s) >= 1
  /\ \/ IsDigit(s[1])
     \/ s[1] = "." /\ Len(s) >= 2 /\ IsDigit(s[2])

\* a number, or a string that starts with a decimal literal
ParseableInput(a) ==
  IF a.type = "number" THEN IsFinite(a.num)
  ELSE \/ StartsWithNumeral(a.str)
       \/ Len(a.str) >= 1 /\ a.str[1] = "-" /\ StartsWithNumeral(Tail(a.str))

\* a non-negative number, or a string that starts with an unsigned literal
NonNegativeInput(a) ==
  IF a.type = "number" THEN IsFinite(a.num) /\ a.num.n >= 0
  ELSE StartsWithNumeral(a.str)

NonNegativeFinite(r) == IsFinite(r) /\ r.n >= 0

\* C6 (as stated): largp(p) >= smlp(p) for every valid percentage.
C6_LargpAtLeastSmlp ==
  /\ (lastOp = "largp" /\ ParseableInput(percent)) =>
       IsFinite(ret) /\ ~Less(ret, smlp(percent))
  /\ (lastOp = "smlp" /\ ParseableInput(percent)) =>
       IsFinite(ret) /\ ~Less(largp(percent), ret)

\* C6 (amended): largp(p) >= smlp(p) for every non-negative percentage.
C6_LargpAtLeastSmlpNonNegative ==
  /\ (lastOp = "largp" /\ NonNegativeInput(percent)) =>
       IsFinite(ret) /\ ~Less(ret, smlp(percent))
  /\ (lastOp = "smlp" /\ NonNegativeInput(percent)) =>
       IsFinite(ret) /\ ~Less(largp(percent), ret)

C6_Witness ==
  /\ lastOp = "largp"
  /\ NonNegativeInput(percent)
  /\ window.width # window.height
  /\ Less(smlp(percent), ret)

\* C7 (as stated): widthToDP and heightToDP return a non-negative finite
\* number for every number and every parseable numeric string.
C7_NonNegativeFinite ==
  (lastOp \in {"wp", "hp"} /\ ParseableInput(percent)) => NonNegativeFinite(ret)

\* C7 (amended): widthToDP and heightToDP return a non-negative finite number
\* for every non-negative finite number and every string that starts with an
\* unsigned decimal literal.
C7_NonNegativeFiniteOfNonNegative ==
  (lastOp \in {"wp", "hp"} /\ NonNegativeInput(percent)) => NonNegativeFinite(ret)

C7_Witness ==
  /\ lastOp = "hp"
  /\ percent = ArgString(<<"5", "%">>)
  /\ NonNegativeFinite(ret)
  /\ ret.n > 0

\* a string without its trailing "%", if it has one
WithoutPercentSign(s) ==
  IF Len(s) >= 1 /\ s[Len(s)] = "%" THEN SubSeq(s, 1, Len(s) - 1) ELSE s

\* digits with at most one "." among them
IsDecimal(b) ==
  /\ \A i \in 1..Len(b) : IsDigit(b[i]) \/ b[i] = "."
  /\ Cardinality({i \in 1..Len(b) : b[i] = "."}) <= 1
  /\ \E i \in 1..Len(b) : IsDigit(b[i])

\* the number a decimal denotes: its digits read as one integer, over ten to
\* the number of digits after the "."
DecimalValue(b) ==
  LET digits == SelectSeq(b, IsDigit)
      dots == {i \in 1..Len(b) : b[i] = "."}
      after == IF dots = {} THEN 0 ELSE Len(b) - (CHOOSE i \in dots : TRUE)
  IN  Fin(DigitsValue(digits, Len(digits), Len(digits)), Pow10(after))

PercentageInput(a) ==
  IF a.type = "number" THEN IsFinite(a.num)
  ELSE IsDecimal(WithoutPercentSign(a.str))

PercentageValue(a) ==
  IF a.type = "number" THEN a.num ELSE DecimalValue(WithoutPercentSign(a.str))

\* r is the pixel rounding of x: a whole number of physical pixels, the
\* nearest to x (the upper one of two equally near)
IsPixelRounding(r, x) ==
  /\ IsFinite(r)
  /\ LET px == Mul(r, pixelRatio)
         xr == Mul(x, pixelRatio)
         twice == 2 * (px.n * xr.d - xr.n)
     IN  px.d = 1 /\ -xr.d < twice /\ twice <= xr.d

ShareOf(side, a) == Div(Mul(side, PercentageValue(a)), Fin(100, 1))

\* C8: widthToDP(p) is the pixel rounding of width * p / 100 and heightToDP(p)
\* that of height * p / 100, p being the number given or the number a string
\* with an optional trailing "%" denotes; widthToDP("50%") at width 400 is 200.
C8_PixelRoundingOfShare ==
  /\ (lastOp = "wp" /\ PercentageInput(percent)) =>
       IsPixelRounding(ret, ShareOf(InDp(window).width, percent))
  /\ (lastOp = "hp" /\ PercentageInput(percent)) =>
       IsPixelRounding(ret, ShareOf(InDp(window).height, percent))
  /\ (/\ lastOp = "wp"
      /\ percent = ArgString(<<"5", "0", "%">>)
      /\ InDp(window).width = Fin(400, 1)) => ret = Fin(200, 1)

C8_Witness ==
  /\ lastOp = "wp"
  /\ percent = ArgString(<<"5", "0", "%">>)
  /\ InDp(window).width = Fin(400, 1)
  /\ window.height # window.width
  /\ ret = Fin(200, 1)

\* inputs tried as the other summand
Partners ==
  {a \in Inputs : a.type = "number" \/ Len(a.str) <= 2}
    \cup {Str100, ArgString(<<"5", "0", "%">>), ArgString(<<"-", "5", "0">>),
          ArgString(<<"1", "5", "0">>)}

\* the inputs q with p + q = 100
Complements(p) ==
  {ArgNumber(Add(Fin(100, 1), Mul(Fin(-1, 1), ToNumber(p))))}
    \cup {q \in Partners : Add(ToNumber(p), ToNumber(q)) = Fin(100, 1)}

\* a and b differ by at most one physical pixel
WithinOnePixel(a, b) ==
  LET d == Add(a, Mul(Fin(-1, 1), b))
  IN  IsFinite(d) /\ Abs(d.n) * pixelRatio.n <= d.d * pixelRatio.d

\* C9: for p + q = 100, widthToDP(p) + widthToDP(q) is within one physical
\* pixel of widthToDP(100).
C9_SumWithinOnePixel ==
  (lastOp = "wp" /\ IsFinite(ToNumber(percent))) =>
    \A q \in Complements(percent) :
      WithinOnePixel(Add(ret, widthPercentageToDP(q)),
                     widthPercentageToDP(ArgNumber(Fin(100, 1))))

C9_Witness ==
  /\ lastOp = "wp"
  /\ percent = ArgString(<<"5", "0">>)
  /\ ArgString(<<"5", "0", "%">>) \in Complements(percent)
  /\ Add(ret, ret) # widthPercentageToDP(Str100)

\* the conversion of the current window's side
OfCurrent(side) ==
  RoundToNearestPixel(Div(Mul(side, ToNumber(percent)), Fin(100, 1)))

\* C10: every conversion call computes from the window current at the call,
\* and largp and smlp choose the longer axis of that window.
C10_ComputedFromCurrentWindow ==
  LET ofWidth == OfCurrent(Div(Fin(window.width, 1), pixelRatio))
      ofHeight == OfCurrent(Div(Fin(window.height, 1), pixelRatio))
      wide == window.width > window.height
  IN  /\ lastOp = "wp" => ret = ofWidth
      /\ lastOp = "hp" => ret = ofHeight
      /\ lastOp = "largp" => ret = IF wide THEN ofWidth ELSE ofHeight
      /\ lastOp = "smlp" => ret = IF wide THEN ofHeight ELSE ofWidth

C10_Witness ==
  /\ lastOp = "largp"
  /\ window.width > window.height
  /\ LoadWindow.width < LoadWindow.height
  /\ IsFinite(ret)
  /\ ret = widthPercentageToDP(percent)
  /\ ret # heightPercentageToDP(percent)

====
